---- MODULE Spec2Model ----
(***************************************************************************)
(* Model of beatport2youtube's workflow: step1 (fetch the Beatport chart   *)
(* into the global beatport_results) and step2 (reconcile the YouTube      *)
(* playlist against it).  The remote playlist is the variable `playlist`;  *)
(* every remote call of step2 is one action per outcome of the call.       *)
(*                                                                         *)
(* Text is modelled as a sequence of characters.  The literal              *)
(* "beatport_track_id:" of the regular expression and of the f-string is   *)
(* one character of the alphabet (Prefix); digits are the strings          *)
(* "0".."9"; "x" is any other character.  Python's None, as the value of   *)
(* _get_beatport_id_from_note, is the empty sequence: group(1) of \d+ is   *)
(* never empty, and `if beatport_id:` treats None and "" alike.            *)
(***************************************************************************)
EXTENDS Integers, Sequences, FiniteSets, TLC

\* ---------------------------------------------------------------- bounds
MaxItems == 2
MaxChart == 2
MaxTrackId == 2
MaxRuns == 2

\* ------------------------------------------------------------- constants
MaxResults == 50

Prefix == "beatport_track_id:"
DigitChars == <<"0", "1", "2", "3", "4", "5", "6", "7", "8", "9">>
Digits == {DigitChars[i] : i \in 1..10}

Min(a, b) == IF a < b THEN a ELSE b

\* ------------------------------------------------------ text conversions
\* str(track["id"]) for a non-negative int: decimal, no leading zeros.
RECURSIVE Str(_)
Str(n) == IF n < 10 THEN <<DigitChars[n + 1]>>
          ELSE Append(Str(n \div 10), DigitChars[(n % 10) + 1])

\* Positions where the pattern beatport_track_id:(\d+) matches.
MatchStarts(note) ==
    {i \in 1..(Len(note) - 1) : note[i] = Prefix /\ note[i + 1] \in Digits}

\* End of the greedy \d+ run that starts at position j.
DigitRunEnd(note, j) ==
    CHOOSE k \in j..Len(note) :
        /\ \A m \in j..k : note[m] \in Digits
        /\ (k = Len(note) \/ note[k + 1] \notin Digits)

\* Faulty variant of the parser: a note without a match yields the id "0".
get_beatport_id_from_note_default(hasNote, note) ==
    IF ~hasNote \/ note = <<>> \/ MatchStarts(note) = {} THEN <<"0">>
    ELSE LET i == CHOOSE a \in MatchStarts(note) : \A b \in MatchStarts(note) : a <= b
         IN  SubSeq(note, i + 1, DigitRunEnd(note, i + 1))

\* _get_beatport_id_from_note: re.search takes the leftmost match.
get_beatport_id_from_note(hasNote, note) ==
    IF ~hasNote \/ note = <<>> THEN <<>>
    ELSE IF MatchStarts(note) = {} THEN <<>>
    ELSE LET i == CHOOSE a \in MatchStarts(note) : \A b \in MatchStarts(note) : a <= b
         IN  SubSeq(note, i + 1, DigitRunEnd(note, i + 1))

\* Faulty variant of the tag: the prefix is misspelt.
SyncTagMisspelt(id) == <<"x">> \o Str(id)

\* f"beatport_track_id:{result['id']}"
SyncTag(id) == <<Prefix>> \o Str(id)

\* ------------------------------------------------------------ index, diff
\* The loop body of lines 72-76 over one page: later items overwrite.
RECURSIVE IndexPage(_, _)
IndexPage(index, items) ==
    IF items = <<>> THEN index
    ELSE LET item == Head(items)
             beatport_id == get_beatport_id_from_note(item.hasNote, item.note)
             next == IF beatport_id # <<>>
                     THEN [k \in (DOMAIN index) \cup {beatport_id} |->
                              IF k = beatport_id THEN item.id ELSE index[k]]
                     ELSE index
         IN  IndexPage(next, Tail(items))

NewBeatportIds(results) == {Str(results[i]) : i \in 1..Len(results)}

\* Faulty variants of the diff: the subtraction is forgotten.
IdsToAddAll(new, existing) == new
IdsToRemoveAll(new, existing) == existing

IdsToAdd(new, existing) == new \ existing
IdsToRemove(new, existing) == existing \ new

RECURSIVE TracksToAdd(_, _)
TracksToAdd(results, ids) ==
    IF results = <<>> THEN <<>>
    ELSE IF Str(Head(results)) \in ids
         THEN <<Head(results)>> \o TracksToAdd(Tail(results), ids)
         ELSE TracksToAdd(Tail(results), ids)

\* ------------------------------------------------------------------ state
VARIABLES
    playlist,          \* the remote playlist: sequence of [id, hasNote, note]
    next_item_id,      \* the id the platform gives to the next inserted item
    beatport_results,  \* the global: sequence of track ids
    pc,                \* position in step1/step2
    run,               \* number of the current run of step2
    next_page_token,   \* 0 is None, else the offset of the next page
    existing_items,    \* {beatport_id: playlist_item_id}
    new_beatport_ids,
    ids_to_add,
    ids_to_remove,
    remove_left,       \* part of ids_to_remove the for loop has not reached
    tracks_to_add,
    add_idx,           \* index in tracks_to_add of the loop's current track
    calls,             \* history: the remote calls and sleeps of this run
    start,             \* history: the playlist at the start of each run
    ended,             \* history: how each earlier run left step2
    failed             \* history: runs with a failed or fruitless call

vars == <<playlist, next_item_id, beatport_results, pc, run, next_page_token,
          existing_items, new_beatport_ids, ids_to_add, ids_to_remove,
          remove_left, tracks_to_add, add_idx, calls, start, ended, failed>>

locals == <<next_page_token, existing_items, new_beatport_ids, ids_to_add,
            ids_to_remove, remove_left, tracks_to_add, add_idx>>

\* Annotations a playlist item can carry (hasNote, note).
Notes ==
    { <<FALSE, <<>> >>,
      <<TRUE, <<>> >>,
      <<TRUE, <<"x">> >>,
      <<TRUE, <<Prefix, "x">> >>,
      <<TRUE, <<Prefix, "1">> >>,
      <<TRUE, <<Prefix, "2">> >>,
      <<TRUE, <<"x", Prefix, "0", "1", "x">> >> }

RECURSIVE SeqsUpTo(_, _)
SeqsUpTo(S, n) ==
    IF n = 0 THEN {<<>>}
    ELSE LET shorter == SeqsUpTo(S, n - 1)
         IN  shorter \cup {Append(s, x) : s \in {t \in shorter : Len(t) = n - 1}, x \in S}

MkPlaylist(ns) ==
    [i \in 1..Len(ns) |-> [id |-> i, hasNote |-> ns[i][1], note |-> ns[i][2]]]

EmptyIndex == [k \in {} |-> 0]

Call(op, key, item, res) == [op |-> op, key |-> key, item |-> item, res |-> res]

Terminal == {"done", "aborted", "search_raised", "update_raised"}

Init ==
    /\ \E ns \in SeqsUpTo(Notes, MaxItems) :
          /\ playlist = MkPlaylist(ns)
          /\ next_item_id = Len(ns) + 1
          /\ start = <<MkPlaylist(ns)>>
    /\ beatport_results = <<>>
    /\ pc = "step1"
    /\ run = 1
    /\ next_page_token = 0
    /\ existing_items = EmptyIndex
    /\ new_beatport_ids = {}
    /\ ids_to_add = {}
    /\ ids_to_remove = {}
    /\ remove_left = {}
    /\ tracks_to_add = <<>>
    /\ add_idx = 1
    /\ calls = <<>>
    /\ ended = <<>>
    /\ failed = {}

\* ------------------------------------------------------------------ step1
Step1Ok ==
    /\ pc = "step1"
    /\ \E res \in SeqsUpTo(1..MaxTrackId, MaxChart) : beatport_results' = res
    /\ pc' = "list"
    /\ UNCHANGED <<playlist, next_item_id, run, locals, calls, start, ended, failed>>

\* get_genre_topN raises BeatportClientError: step2 is not reached.
Step1Fail ==
    /\ pc = "step1"
    /\ pc' = "step1_raised"
    /\ UNCHANGED <<playlist, next_item_id, beatport_results, run, locals, calls,
                   start, ended, failed>>

\* ------------------------------------------------------- step2: listing
\* One page of playlistItems().list: the platform returns at most maxResults
\* items and a nextPageToken while items remain.
ListPageOk ==
    /\ pc = "list"
    /\ LET off == next_page_token
           rem == Len(playlist) - off
       IN  \E n \in (IF rem = 0 THEN {0} ELSE 1..Min(rem, MaxResults)) :
              LET items == SubSeq(playlist, off + 1, off + n)
                  token == IF off + n < Len(playlist) THEN off + n ELSE 0
              IN  /\ existing_items' = IndexPage(existing_items, items)
                  /\ next_page_token' = token
                  /\ pc' = IF token = 0 THEN "diff" ELSE "list"
                  /\ calls' = Append(calls, Call("list", <<>>, off, "ok"))
    /\ UNCHANGED <<playlist, next_item_id, beatport_results, run,
                   new_beatport_ids, ids_to_add, ids_to_remove, remove_left,
                   tracks_to_add, add_idx, start, ended, failed>>

\* Faulty variant of the failure: the error is swallowed and the partial index used.
ListPageFailSwallowed ==
    /\ pc = "list"
    /\ pc' = "diff"
    /\ calls' = Append(calls, Call("list", <<>>, next_page_token, "fail"))
    /\ failed' = failed \cup {run}
    /\ UNCHANGED <<playlist, next_item_id, beatport_results, run, locals, start, ended>>

\* request.execute() raises at line 70: nothing catches it, step2 is left.
ListPageFail ==
    /\ pc = "list"
    /\ pc' = "aborted"
    /\ calls' = Append(calls, Call("list", <<>>, next_page_token, "fail"))
    /\ failed' = failed \cup {run}
    /\ UNCHANGED <<playlist, next_item_id, beatport_results, run, locals, start, ended>>

\* ---------------------------------------------------------- step2: diff
\* Where the add loop stands: `if ids_to_add:` and `for result in tracks_to_add`.
PcAdd(toadd, tracks, idx) ==
    IF toadd # {} /\ idx <= Len(tracks) THEN "search" ELSE "update"

\* Where the remove loop stands: `if ids_to_remove:` and the for loop.
PcRemove(left, toadd, tracks) ==
    IF left # {} THEN "remove" ELSE PcAdd(toadd, tracks, 1)

ComputeDiff ==
    /\ pc = "diff"
    /\ LET new == NewBeatportIds(beatport_results)
           existing_beatport_ids == DOMAIN existing_items
           add == IdsToAdd(new, existing_beatport_ids)
           rem == IdsToRemove(new, existing_beatport_ids)
           tracks == TracksToAdd(beatport_results, add)
       IN  /\ new_beatport_ids' = new
           /\ ids_to_add' = add
           /\ ids_to_remove' = rem
           /\ remove_left' = rem
           /\ tracks_to_add' = tracks
           /\ add_idx' = 1
           /\ pc' = PcRemove(rem, add, tracks)
    /\ UNCHANGED <<playlist, next_item_id, beatport_results, run,
                   next_page_token, existing_items, calls, start, ended, failed>>

\* -------------------------------------------------------- step2: removal
WithoutItem(pl, item_id) == SelectSeq(pl, LAMBDA it : it.id # item_id)

\* delete succeeds; the sleep follows inside the try block.
DeleteOk ==
    /\ pc = "remove"
    /\ \E beatport_id \in remove_left :
          LET playlist_item_id == existing_items[beatport_id]
          IN  /\ playlist' = WithoutItem(playlist, playlist_item_id)
              /\ calls' = calls \o <<Call("delete", beatport_id, playlist_item_id, "ok"),
                                     Call("sleep", <<>>, 0, "ok")>>
              /\ remove_left' = remove_left \ {beatport_id}
              /\ pc' = PcRemove(remove_left', ids_to_add, tracks_to_add)
    /\ UNCHANGED <<next_item_id, beatport_results, run, next_page_token,
                   existing_items, new_beatport_ids, ids_to_add, ids_to_remove,
                   tracks_to_add, add_idx, start, ended, failed>>

\* delete raises: `except Exception` reports it; the sleep is skipped.
DeleteFail ==
    /\ pc = "remove"
    /\ \E beatport_id \in remove_left :
          LET playlist_item_id == existing_items[beatport_id]
          IN  /\ calls' = Append(calls, Call("delete", beatport_id, playlist_item_id, "fail"))
              /\ remove_left' = remove_left \ {beatport_id}
              /\ pc' = PcRemove(remove_left', ids_to_add, tracks_to_add)
    /\ failed' = failed \cup {run}
    /\ UNCHANGED <<playlist, next_item_id, beatport_results, run, next_page_token,
                   existing_items, new_beatport_ids, ids_to_add, ids_to_remove,
                   tracks_to_add, add_idx, start, ended>>

\* ------------------------------------------------------- step2: addition
\* search_videos returns a video; time.sleep(1) follows.
SearchFound ==
    /\ pc = "search"
    /\ calls' = calls \o <<Call("search", Str(tracks_to_add[add_idx]), 0, "found"),
                           Call("sleep", <<>>, 0, "ok")>>
    /\ pc' = "insert"
    /\ UNCHANGED <<playlist, next_item_id, beatport_results, run, locals, start, ended, failed>>

\* search_videos returns []: no items, or an HttpError it caught.
SearchEmpty ==
    /\ pc = "search"
    /\ \E r \in {"none", "http_error"} :
          calls' = calls \o <<Call("search", Str(tracks_to_add[add_idx]), 0, r),
                              Call("sleep", <<>>, 0, "ok")>>
    /\ add_idx' = add_idx + 1
    /\ pc' = PcAdd(ids_to_add, tracks_to_add, add_idx')
    /\ failed' = failed \cup {run}
    /\ UNCHANGED <<playlist, next_item_id, beatport_results, run, next_page_token,
                   existing_items, new_beatport_ids, ids_to_add, ids_to_remove,
                   remove_left, tracks_to_add, start, ended>>

\* request.execute() raises an exception that is no HttpError (a transport
\* error): `except HttpError` does not catch it, and line 119 is in no try.
SearchRaise ==
    /\ pc = "search"
    /\ calls' = Append(calls, Call("search", Str(tracks_to_add[add_idx]), 0, "raised"))
    /\ pc' = "search_raised"
    /\ failed' = failed \cup {run}
    /\ UNCHANGED <<playlist, next_item_id, beatport_results, run, locals, start, ended>>

InsertOk ==
    /\ pc = "insert"
    /\ LET result == tracks_to_add[add_idx]
       IN  /\ playlist' = Append(playlist, [id |-> next_item_id, hasNote |-> TRUE,
                                            note |-> SyncTag(result)])
           /\ calls' = Append(calls, Call("insert", Str(result), next_item_id, "ok"))
    /\ next_item_id' = next_item_id + 1
    /\ add_idx' = add_idx + 1
    /\ pc' = PcAdd(ids_to_add, tracks_to_add, add_idx')
    /\ UNCHANGED <<beatport_results, run, next_page_token, existing_items,
                   new_beatport_ids, ids_to_add, ids_to_remove, remove_left,
                   tracks_to_add, start, ended, failed>>

\* insert raises: `except Exception` reports it.
InsertFail ==
    /\ pc = "insert"
    /\ calls' = Append(calls, Call("insert", Str(tracks_to_add[add_idx]), 0, "fail"))
    /\ add_idx' = add_idx + 1
    /\ pc' = PcAdd(ids_to_add, tracks_to_add, add_idx')
    /\ failed' = failed \cup {run}
    /\ UNCHANGED <<playlist, next_item_id, beatport_results, run, next_page_token,
                   existing_items, new_beatport_ids, ids_to_add, ids_to_remove,
                   remove_left, tracks_to_add, start, ended>>

\* ------------------------------------------------------ step2: metadata
UpdateOk ==
    /\ pc = "update"
    /\ calls' = Append(calls, Call("update", <<>>, 0, "ok"))
    /\ pc' = "done"
    /\ UNCHANGED <<playlist, next_item_id, beatport_results, run, locals, start, ended, failed>>

\* playlists().update(...).execute() raises: lines 149-158 are in no try, so
\* the exception leaves step2 and "Step 2 completed" is not printed.
UpdateFail ==
    /\ pc = "update"
    /\ calls' = Append(calls, Call("update", <<>>, 0, "fail"))
    /\ pc' = "update_raised"
    /\ UNCHANGED <<playlist, next_item_id, beatport_results, run, locals, start, ended, failed>>

\* step2 is called again with the same beatport_results.
StartRun ==
    /\ pc \in Terminal
    /\ run < MaxRuns
    /\ run' = run + 1
    /\ pc' = "list"
    /\ next_page_token' = 0
    /\ existing_items' = EmptyIndex
    /\ new_beatport_ids' = {}
    /\ ids_to_add' = {}
    /\ ids_to_remove' = {}
    /\ remove_left' = {}
    /\ tracks_to_add' = <<>>
    /\ add_idx' = 1
    /\ calls' = <<>>
    /\ start' = Append(start, playlist)
    /\ ended' = Append(ended, pc)
    /\ UNCHANGED <<playlist, next_item_id, beatport_results, failed>>

Next ==
    \/ Step1Ok
    \/ Step1Fail
    \/ ListPageOk
    \/ ListPageFail
    \/ ComputeDiff
    \/ DeleteOk
    \/ DeleteFail
    \/ SearchFound
    \/ SearchEmpty
    \/ SearchRaise
    \/ InsertOk
    \/ InsertFail
    \/ UpdateOk
    \/ UpdateFail
    \/ StartRun

Spec == Init /\ [][Next]_vars

\* ============================================================ properties
CallIdx(op) == {i \in 1..Len(calls) : calls[i].op = op}

\* The diff of the current run has been computed.
PastDiff == pc \in {"remove", "search", "insert", "update", "done",
                    "search_raised", "update_raised"}

\* The listing completed and step2 has been left.
RunOver == pc \in {"done", "search_raised", "update_raised"}

\* The annotation is present and matches beatport_track_id:<digits>.
Tagged(item) ==
    /\ item.hasNote
    /\ \E i \in 1..Len(item.note) :
          /\ item.note[i] = Prefix
          /\ i < Len(item.note)
          /\ item.note[i + 1] \in Digits

\* The external ids carried by SyncTags on the items of a playlist.
Tags(pl) ==
    {get_beatport_id_from_note(pl[i].hasNote, pl[i].note) : i \in 1..Len(pl)} \ {<<>>}

\* No tag id missing from the chart is carried by two items of the playlist.
NoStaleDuplicate(pl, chart_ids) ==
    \A i, j \in 1..Len(pl) :
        LET ti == get_beatport_id_from_note(pl[i].hasNote, pl[i].note)
            tj == get_beatport_id_from_note(pl[j].hasNote, pl[j].note)
        IN  (i # j /\ ti # <<>> /\ ti = tj) => ti \in chart_ids

\* C1: once the diff is computed, ids_to_add is the chart ids minus the
\* index keys and ids_to_remove the index keys minus the chart ids; the two
\* are disjoint, and each united with the intersection gives back its side.
C1_DiffCorrect ==
    PastDiff =>
        LET A == new_beatport_ids
            B == DOMAIN existing_items
        IN  /\ \A x \in A \cup B \cup ids_to_add \cup ids_to_remove :
                  /\ x \in ids_to_add <=> (x \in A /\ x \notin B)
                  /\ x \in ids_to_remove <=> (x \in B /\ x \notin A)
            /\ ids_to_add \cap ids_to_remove = {}
            /\ ids_to_add \cup (A \cap B) = A
            /\ ids_to_remove \cup (A \cap B) = B

C1_Witness ==
    /\ PastDiff
    /\ ids_to_add # {}
    /\ ids_to_remove # {}
    /\ new_beatport_ids \cap DOMAIN existing_items # {}

\* C2: an item of the playlist whose annotation is absent or does not match
\* the tag pattern is never in existing_items, never the subject of a delete
\* call, and stays on the playlist.
C2_NoTagUntouched ==
    \A n \in 1..Len(start[run]) :
        LET item == start[run][n]
        IN  ~Tagged(item) =>
               /\ \A k \in DOMAIN existing_items : existing_items[k] # item.id
               /\ \A i \in CallIdx("delete") : calls[i].item # item.id
               /\ \E m \in 1..Len(playlist) : playlist[m] = item

C2_Witness ==
    /\ \E n \in 1..Len(start[run]) :
          /\ ~Tagged(start[run][n])
          /\ start[run][n].hasNote
          /\ start[run][n].note # <<>>
    /\ \E i \in CallIdx("delete") : calls[i].res = "ok"
    /\ pc = "done"

\* C3 (as claimed): when step2 has been left after a complete listing, every
\* id of ids_to_remove has had a delete attempt, every id of ids_to_add a
\* search attempt, and every found video an insert attempt.
C3_FailuresIsolated ==
    RunOver =>
        /\ \A k \in ids_to_remove : \E i \in CallIdx("delete") : calls[i].key = k
        /\ \A k \in ids_to_add : \E i \in CallIdx("search") : calls[i].key = k
        /\ \A i \in CallIdx("search") :
              calls[i].res = "found" =>
                 \E j \in CallIdx("insert") : j > i /\ calls[j].key = calls[i].key

\* C4 (as claimed): when step2 has been left after a complete listing, the
\* metadata update has been issued exactly once, as the last call of the run.
C4_UpdateExactlyOnce ==
    RunOver =>
        /\ Cardinality(CallIdx("update")) = 1
        /\ calls[Len(calls)].op = "update"

\* C5 (as claimed): in a run of step2 that follows a completed run with the
\* same chart, ids_to_add and ids_to_remove are both empty.
C5_SecondRunEmpty ==
    (run >= 2 /\ PastDiff /\ ended[run - 1] = "done") =>
        (ids_to_add = {} /\ ids_to_remove = {})

\* C5 (amended): in a run of step2 that follows a run with the same chart in
\* which the listing completed, every delete and insert call succeeded and
\* every search returned a video, and which started from a playlist where no
\* tag id missing from the chart was carried by two items, ids_to_add and
\* ids_to_remove are both empty.
C5_SecondRunEmptyAfterCleanRun ==
    (/\ run >= 2
     /\ PastDiff
     /\ (run - 1) \notin failed
     /\ NoStaleDuplicate(start[run - 1], NewBeatportIds(beatport_results))) =>
        (ids_to_add = {} /\ ids_to_remove = {})

C5_Witness ==
    /\ run = 2
    /\ pc = "done"
    /\ 1 \notin failed
    /\ \E i \in 1..Len(start[1]) : \A j \in 1..Len(start[2]) : start[2][j] # start[1][i]
    /\ \E j \in 1..Len(start[2]) : \A i \in 1..Len(start[1]) : start[2][j] # start[1][i]
    /\ ids_to_add = {}
    /\ ids_to_remove = {}

\* C6 (as claimed): after a run in which every delete, search and insert call
\* succeeded, the tag ids on the playlist are the ids of the chart.
C6_MembershipMatches ==
    (pc \in {"done", "update_raised"} /\ run \notin failed) =>
        Tags(playlist) = NewBeatportIds(beatport_results)

\* C6 (amended): after such a run, started from a playlist where no tag id
\* missing from the chart was carried by two items, the tag ids on the
\* playlist are the ids of the chart.
C6_MembershipMatchesNoDuplicate ==
    (/\ pc \in {"done", "update_raised"}
     /\ run \notin failed
     /\ NoStaleDuplicate(start[run], NewBeatportIds(beatport_results))) =>
        Tags(playlist) = NewBeatportIds(beatport_results)

C6_Witness ==
    /\ pc = "done"
    /\ run \notin failed
    /\ NoStaleDuplicate(start[run], NewBeatportIds(beatport_results))
    /\ \E i \in CallIdx("delete") : calls[i].res = "ok"
    /\ \E i \in CallIdx("insert") : calls[i].res = "ok"
    /\ new_beatport_ids \cap DOMAIN existing_items # {}

\* C7: once a page request of the listing has failed, step2 has been left
\* with the error and the run holds no delete, search, insert or update call.
C7_ReadAllOrNothing ==
    (\E i \in CallIdx("list") : calls[i].res = "fail") =>
        /\ pc = "aborted"
        /\ CallIdx("delete") \cup CallIdx("search") \cup CallIdx("insert")
              \cup CallIdx("update") = {}
        /\ playlist = start[run]

C7_Witness ==
    /\ pc = "aborted"
    /\ \E i \in CallIdx("list") : calls[i].res = "ok"
    /\ DOMAIN existing_items # {}
    /\ NewBeatportIds(beatport_results) # DOMAIN existing_items

\* C8 (as claimed): a run whose metadata update failed finishes as a
\* completed run, as a run whose update succeeded does.
C8_UpdateFailureHarmless ==
    (\E i \in CallIdx("update") : calls[i].res = "fail") => pc = "done"

\* C9 (as claimed): between any two delete calls of a run there is a sleep.
C9_DeletePaced ==
    \A i, j \in CallIdx("delete") :
        i < j => \E m \in (i + 1)..(j - 1) : calls[m].op = "sleep"

\* C10 (as claimed): in a completed run every id of ids_to_remove is the
\* subject of exactly one delete call, and every id of ids_to_add of exactly
\* one search call and at most one insert call.
C10_ExactlyOnce ==
    pc = "done" =>
        /\ \A k \in ids_to_remove :
              Cardinality({i \in CallIdx("delete") : calls[i].key = k}) = 1
        /\ \A k \in ids_to_add :
              /\ Cardinality({i \in CallIdx("search") : calls[i].key = k}) = 1
              /\ Cardinality({i \in CallIdx("insert") : calls[i].key = k}) <= 1

====
